---------------------------- MODULE Spec2Model ----------------------------
(***************************************************************************)
(* The compressed sparse matrix format of the matrix crate                 *)
(* (src/src/format/compressed): point read and write, retain, resize,      *)
(* transpose, in-place diagonal scaling and the conversions from and to    *)
(* the conventional (dense, column-major) and diagonal formats.            *)
(*                                                                         *)
(* Vectors are sequences; the code's indices and offsets are 0-based and   *)
(* are kept 0-based as numbers, so element k of a vector s is At(s, k).    *)
(***************************************************************************)
EXTENDS Integers, Sequences, FiniteSets, TLC

VARIABLES m, pre, op, panicked, twin

vars == <<m, pre, op, panicked, twin>>

(* Bounds of the model. *)
MaxRows == 3
MaxCols == 2
MaxVal == 1
MaxCapacity == 1

RowDims == 0..MaxRows
ColDims == 0..MaxCols
Values == 0..MaxVal
Variants == {"Column", "Row"}

(* ----------------------------- vectors --------------------------------- *)

At(s, k) == s[k + 1]

InRange(s, k) == k >= 0 /\ k < Len(s)

(* Vec::insert(k, x) *)
InsertAt(s, k, x) == SubSeq(s, 1, k) \o <<x>> \o SubSeq(s, k + 1, Len(s))

(* Vec::remove(k) *)
RemoveAt(s, k) == SubSeq(s, 1, k) \o SubSeq(s, k + 2, Len(s))

(* vec![x; n] *)
Repeat(x, n) == [q \in 1..n |-> x]

(* Vec::truncate(n) *)
Truncate(s, n) == IF n < Len(s) THEN SubSeq(s, 1, n) ELSE s

(* for offset in &mut offsets[from..] { *offset += d } *)
ShiftFrom(s, from, d) == [q \in 1..Len(s) |-> IF q - 1 >= from THEN s[q] + d ELSE s[q]]

Min(a, b) == IF a > b THEN b ELSE a

(* Element::zero and Element::is_zero *)
Zero == 0

IsZero(v) == v = Zero

(* --------------------------- constructors ------------------------------ *)

Compressed(rows, columns, nonzeros, variant, values, indices, offsets) ==
    [rows |-> rows, columns |-> columns, nonzeros |-> nonzeros, variant |-> variant,
     values |-> values, indices |-> indices, offsets |-> offsets]

(* Compressed::with_capacity: the capacity is an allocation hint only *)
WithCapacity(rows, columns, variant, capacity) ==
    LET offset == IF variant = "Column" THEN Repeat(0, columns + 1)
                  ELSE Repeat(0, rows + 1)
    IN  Compressed(rows, columns, 0, variant, <<>>, <<>>, offset)

(* Compressed::new *)
New(rows, columns, variant) == WithCapacity(rows, columns, variant, 0)

(* Matrix::zero of format::compressed *)
MatrixZero(rows, columns) == New(rows, columns, "Column")

(* Matrix::zero of the older compressed module: offsets is vec![0] whatever *)
(* the number of columns                                                    *)
MatrixZeroLegacy(rows, columns) ==
    Compressed(rows, columns, 0, "Column", <<>>, <<>>, <<0>>)

(* Conventional::new and the struct itself: values in column-major order *)
Conventional(rows, columns, values) ==
    [rows |-> rows, columns |-> columns, values |-> values]

ConventionalNew(rows, columns) == Conventional(rows, columns, Repeat(Zero, rows * columns))

(* Index<P> for Conventional *)
ConventionalIndex(d, i, j) == At(d.values, j * d.rows + i)

(* ------------------------------- get ----------------------------------- *)

RECURSIVE GetScan(_, _, _, _)
GetScan(mat, i, k, end) ==
    IF k < end
    THEN IF At(mat.indices, k) = i THEN At(mat.values, k)
         ELSE IF At(mat.indices, k) > i THEN Zero
         ELSE GetScan(mat, i, k + 1, end)
    ELSE Zero

(* Get with the scan stopping one entry short of the end of the group *)
GetShortRange(mat, row, column) ==
    LET i == IF mat.variant = "Row" THEN column ELSE row
        j == IF mat.variant = "Row" THEN row ELSE column
    IN  GetScan(mat, i, At(mat.offsets, j), At(mat.offsets, j + 1) - 1)

(* get and set start by reading offsets[j] and offsets[j + 1], which *)
(* panics when offsets is too short for the major index j            *)
OffsetsPanic(mat, row, column) ==
    LET j == IF mat.variant = "Row" THEN row ELSE column
    IN  ~InRange(mat.offsets, j) \/ ~InRange(mat.offsets, j + 1)

(* get without the swap of the coordinates of a Row matrix *)
GetNoSwap(mat, row, column) ==
    IF ~InRange(mat.offsets, column + 1) THEN Zero
    ELSE GetScan(mat, row, At(mat.offsets, column), At(mat.offsets, column + 1))

Get(mat, row, column) ==
    LET i == IF mat.variant = "Row" THEN column ELSE row
        j == IF mat.variant = "Row" THEN row ELSE column
    IN  GetScan(mat, i, At(mat.offsets, j), At(mat.offsets, j + 1))

(* ------------------------------- set ----------------------------------- *)

(* SetScan without the break at the first larger index *)
RECURSIVE SetScanNoBreak(_, _, _, _)
SetScanNoBreak(mat, i, j, k) ==
    IF k < At(mat.offsets, j + 1)
    THEN IF At(mat.indices, k) = i THEN [found |-> TRUE, k |-> k]
         ELSE SetScanNoBreak(mat, i, j, k + 1)
    ELSE [found |-> FALSE, k |-> k]

RECURSIVE SetScan(_, _, _, _)
SetScan(mat, i, j, k) ==
    IF k < At(mat.offsets, j + 1)
    THEN IF At(mat.indices, k) = i THEN [found |-> TRUE, k |-> k]
         ELSE IF At(mat.indices, k) > i THEN [found |-> FALSE, k |-> k]
         ELSE SetScan(mat, i, j, k + 1)
    ELSE [found |-> FALSE, k |-> k]

(* Set that also increments the offset of the group it inserts into *)
SetShiftsOwnGroup(mat, row, column, value) ==
    LET i == IF mat.variant = "Row" THEN column ELSE row
        j == IF mat.variant = "Row" THEN row ELSE column
        s == SetScan(mat, i, j, At(mat.offsets, j))
    IN  IF s.found
        THEN [mat EXCEPT !.values[s.k + 1] = value]
        ELSE [mat EXCEPT !.nonzeros = @ + 1,
                         !.values = InsertAt(@, s.k, value),
                         !.indices = InsertAt(@, s.k, i),
                         !.offsets = ShiftFrom(@, j, 1)]

(* Set that treats a zero value as nothing to store *)
SetSkipsZero(mat, row, column, value) ==
    LET i == IF mat.variant = "Row" THEN column ELSE row
        j == IF mat.variant = "Row" THEN row ELSE column
        s == SetScan(mat, i, j, At(mat.offsets, j))
    IN  IF IsZero(value) THEN mat
        ELSE IF s.found
        THEN [mat EXCEPT !.values[s.k + 1] = value]
        ELSE [mat EXCEPT !.nonzeros = @ + 1,
                         !.values = InsertAt(@, s.k, value),
                         !.indices = InsertAt(@, s.k, i),
                         !.offsets = ShiftFrom(@, j + 1, 1)]

(* Set that inserts even when the coordinate is already stored *)
SetAlwaysInserts(mat, row, column, value) ==
    LET i == IF mat.variant = "Row" THEN column ELSE row
        j == IF mat.variant = "Row" THEN row ELSE column
        s == SetScan(mat, i, j, At(mat.offsets, j))
    IN  [mat EXCEPT !.nonzeros = @ + 1,
                    !.values = InsertAt(@, s.k, value),
                    !.indices = InsertAt(@, s.k, i),
                    !.offsets = ShiftFrom(@, j + 1, 1)]

(* Set whose insertion leaves the offset that ends the affected group as it was *)
SetShiftsFromNextGroup(mat, row, column, value) ==
    LET i == IF mat.variant = "Row" THEN column ELSE row
        j == IF mat.variant = "Row" THEN row ELSE column
        s == SetScan(mat, i, j, At(mat.offsets, j))
    IN  IF s.found
        THEN [mat EXCEPT !.values[s.k + 1] = value]
        ELSE [mat EXCEPT !.nonzeros = @ + 1,
                         !.values = InsertAt(@, s.k, value),
                         !.indices = InsertAt(@, s.k, i),
                         !.offsets = ShiftFrom(@, j + 2, 1)]

Set(mat, row, column, value) ==
    LET i == IF mat.variant = "Row" THEN column ELSE row
        j == IF mat.variant = "Row" THEN row ELSE column
        s == SetScan(mat, i, j, At(mat.offsets, j))
    IN  IF s.found
        THEN [mat EXCEPT !.values[s.k + 1] = value]
        ELSE [mat EXCEPT !.nonzeros = @ + 1,
                         !.values = InsertAt(@, s.k, value),
                         !.indices = InsertAt(@, s.k, i),
                         !.offsets = ShiftFrom(@, j + 1, 1)]

(* ----------------------------- iterator -------------------------------- *)

(* the group advance with an if in place of the while *)
AdvanceMajorOnce(offsets, major, k) ==
    IF ~InRange(offsets, major + 1) THEN -1
    ELSE IF At(offsets, major + 1) <= k THEN major + 1
    ELSE major

(* while offsets[major + 1] <= k { major += 1 }: the group of position k,  *)
(* or -1 when the loop reads offsets past its last element (a panic).      *)
RECURSIVE AdvanceMajor(_, _, _)
AdvanceMajor(offsets, major, k) ==
    IF ~InRange(offsets, major + 1) THEN -1
    ELSE IF At(offsets, major + 1) <= k THEN AdvanceMajor(offsets, major + 1, k)
    ELSE major

(* Compressed::iter / iter_mut *)
Iter == [taken |-> 0, major |-> 0]

(* Iterator::next: none at the end, otherwise the item and the new cursor *)
IterNext(mat, it) ==
    LET k == it.taken
        major == AdvanceMajor(mat.offsets, it.major, k)
    IN  IF k = mat.nonzeros
        THEN [none |-> TRUE, oob |-> FALSE, it |-> it, item |-> <<>>]
        ELSE IF major = -1 \/ ~InRange(mat.indices, k) \/ ~InRange(mat.values, k)
        THEN [none |-> TRUE, oob |-> TRUE, it |-> it, item |-> <<>>]
        ELSE [none |-> FALSE, oob |-> FALSE,
              it |-> [taken |-> k + 1, major |-> major],
              item |-> IF mat.variant = "Column"
                       THEN <<At(mat.indices, k), major, At(mat.values, k)>>
                       ELSE <<major, At(mat.indices, k), At(mat.values, k)>>]

(* the items a full pass of the iterator yields, in order *)
RECURSIVE IterCollect(_, _, _)
IterCollect(mat, it, acc) ==
    LET n == IterNext(mat, it)
    IN  IF n.none THEN [items |-> acc, oob |-> n.oob]
        ELSE IterCollect(mat, n.it, Append(acc, n.item))

IterItems(mat) == IterCollect(mat, Iter, <<>>)

(* ------------------------------ retain --------------------------------- *)

(* The closure handed to retain: either an arbitrary pure predicate, given *)
(* by the set of (row, column, value) triples it accepts, or the closure   *)
(* |i, j, _| i < rows && j < columns that resize builds.                   *)
(* resize's closure without the test of the row *)
ConditionColumnOnly(p, i, j, v) ==
    IF p.kind = "within" THEN j < p.columns
    ELSE <<i, j, v>> \in p.keep

Condition(p, i, j, v) ==
    IF p.kind = "within" THEN i < p.rows /\ j < p.columns
    ELSE <<i, j, v>> \in p.keep

Within(rows, columns) == [kind |-> "within", rows |-> rows, columns |-> columns]

Keeping(keep) == [kind |-> "keep", keep |-> keep]

(* One run of retain's loop from the state s = (matrix, k, major); calls   *)
(* lists the arguments of every evaluation of the condition, in order.     *)
(* RetainLoop that advances the scan position after a removal as well *)
RECURSIVE RetainLoopAdvances(_, _)
RetainLoopAdvances(s, p) ==
    IF ~(s.k < Len(s.mat.indices)) THEN s
    ELSE LET major == AdvanceMajor(s.mat.offsets, s.major, s.k)
         IN  IF major = -1 THEN [s EXCEPT !.oob = TRUE]
             ELSE LET index == At(s.mat.indices, s.k)
                      value == At(s.mat.values, s.k)
                      i == IF s.mat.variant = "Column" THEN index ELSE major
                      j == IF s.mat.variant = "Column" THEN major ELSE index
                      t == [s EXCEPT !.major = major,
                                     !.calls = Append(@, <<i, j, value>>)]
                  IN  IF Condition(p, i, j, value)
                      THEN RetainLoopAdvances([t EXCEPT !.k = @ + 1], p)
                      ELSE RetainLoopAdvances(
                               [t EXCEPT !.k = @ + 1,
                                         !.mat.nonzeros = @ - 1,
                                         !.mat.values = RemoveAt(@, s.k),
                                         !.mat.indices = RemoveAt(@, s.k),
                                         !.mat.offsets = ShiftFrom(@, major + 1, -1)],
                               p)

(* RetainLoop that on a removal also decrements the offset of the current group *)
RECURSIVE RetainLoopShiftsOwnGroup(_, _)
RetainLoopShiftsOwnGroup(s, p) ==
    IF ~(s.k < Len(s.mat.indices)) THEN s
    ELSE LET major == AdvanceMajor(s.mat.offsets, s.major, s.k)
         IN  IF major = -1 THEN [s EXCEPT !.oob = TRUE]
             ELSE LET index == At(s.mat.indices, s.k)
                      value == At(s.mat.values, s.k)
                      i == IF s.mat.variant = "Column" THEN index ELSE major
                      j == IF s.mat.variant = "Column" THEN major ELSE index
                      t == [s EXCEPT !.major = major,
                                     !.calls = Append(@, <<i, j, value>>)]
                  IN  IF Condition(p, i, j, value)
                      THEN RetainLoopShiftsOwnGroup([t EXCEPT !.k = @ + 1], p)
                      ELSE RetainLoopShiftsOwnGroup(
                               [t EXCEPT !.mat.nonzeros = @ - 1,
                                         !.mat.values = RemoveAt(@, s.k),
                                         !.mat.indices = RemoveAt(@, s.k),
                                         !.mat.offsets = ShiftFrom(@, major, -1)],
                               p)

(* RetainLoop that runs while k <= indices.len() *)
RECURSIVE RetainLoopOneMore(_, _)
RetainLoopOneMore(s, p) ==
    IF ~(s.k <= Len(s.mat.indices)) \/ s.oob THEN s
    ELSE LET major == AdvanceMajor(s.mat.offsets, s.major, s.k)
         IN  IF major = -1 \/ ~InRange(s.mat.indices, s.k) THEN [s EXCEPT !.oob = TRUE]
             ELSE LET index == At(s.mat.indices, s.k)
                      value == At(s.mat.values, s.k)
                      i == IF s.mat.variant = "Column" THEN index ELSE major
                      j == IF s.mat.variant = "Column" THEN major ELSE index
                      t == [s EXCEPT !.major = major,
                                     !.calls = Append(@, <<i, j, value>>)]
                  IN  IF Condition(p, i, j, value)
                      THEN RetainLoopOneMore([t EXCEPT !.k = @ + 1], p)
                      ELSE RetainLoopOneMore(
                               [t EXCEPT !.mat.nonzeros = @ - 1,
                                         !.mat.values = RemoveAt(@, s.k),
                                         !.mat.indices = RemoveAt(@, s.k),
                                         !.mat.offsets = ShiftFrom(@, major + 1, -1)],
                               p)

RECURSIVE RetainLoop(_, _)
RetainLoop(s, p) ==
    IF ~(s.k < Len(s.mat.indices)) THEN s
    ELSE LET major == AdvanceMajor(s.mat.offsets, s.major, s.k)
         IN  IF major = -1 THEN [s EXCEPT !.oob = TRUE]
             ELSE LET index == At(s.mat.indices, s.k)
                      value == At(s.mat.values, s.k)
                      i == IF s.mat.variant = "Column" THEN index ELSE major
                      j == IF s.mat.variant = "Column" THEN major ELSE index
                      t == [s EXCEPT !.major = major,
                                     !.calls = Append(@, <<i, j, value>>)]
                  IN  IF Condition(p, i, j, value)
                      THEN RetainLoop([t EXCEPT !.k = @ + 1], p)
                      ELSE RetainLoop(
                               [t EXCEPT !.mat.nonzeros = @ - 1,
                                         !.mat.values = RemoveAt(@, s.k),
                                         !.mat.indices = RemoveAt(@, s.k),
                                         !.mat.offsets = ShiftFrom(@, major + 1, -1)],
                               p)

RetainRun(mat, p) ==
    RetainLoop([mat |-> mat, k |-> 0, major |-> 0, calls |-> <<>>, oob |-> FALSE], p)

Retain(mat, p) == RetainRun(mat, p).mat

RetainPanics(mat, p) == RetainRun(mat, p).oob

(* ------------------------------ resize --------------------------------- *)

(* Resize that leaves the length of offsets as it was *)
ResizeKeepsOffsets(mat, rows, columns) ==
    LET pruned == IF rows < mat.rows \/ columns < mat.columns
                  THEN Retain(mat, Within(rows, columns))
                  ELSE mat
    IN  [pruned EXCEPT !.columns = columns, !.rows = rows]

(* Resize that prunes only when the number of rows shrinks *)
ResizePrunesOnRows(mat, rows, columns) ==
    LET pruned == IF rows < mat.rows
                  THEN Retain(mat, Within(rows, columns))
                  ELSE mat
        from == IF mat.variant = "Column" THEN pruned.columns ELSE pruned.rows
        into == IF mat.variant = "Column" THEN columns ELSE rows
        offsets == IF from > into THEN Truncate(pruned.offsets, into + 1)
                   ELSE IF from < into
                   THEN pruned.offsets \o Repeat(pruned.nonzeros, into - from)
                   ELSE pruned.offsets
    IN  [pruned EXCEPT !.offsets = offsets, !.columns = columns, !.rows = rows]

(* Resize that appends zero offsets for the added groups *)
ResizeAppendsZero(mat, rows, columns) ==
    LET pruned == IF rows < mat.rows \/ columns < mat.columns
                  THEN Retain(mat, Within(rows, columns))
                  ELSE mat
        from == IF mat.variant = "Column" THEN pruned.columns ELSE pruned.rows
        into == IF mat.variant = "Column" THEN columns ELSE rows
        offsets == IF from > into THEN Truncate(pruned.offsets, into + 1)
                   ELSE IF from < into
                   THEN pruned.offsets \o Repeat(0, into - from)
                   ELSE pruned.offsets
    IN  [pruned EXCEPT !.offsets = offsets, !.columns = columns, !.rows = rows]

Resize(mat, rows, columns) ==
    LET pruned == IF rows < mat.rows \/ columns < mat.columns
                  THEN Retain(mat, Within(rows, columns))
                  ELSE mat
        from == IF mat.variant = "Column" THEN pruned.columns ELSE pruned.rows
        into == IF mat.variant = "Column" THEN columns ELSE rows
        offsets == IF from > into THEN Truncate(pruned.offsets, into + 1)
                   ELSE IF from < into
                   THEN pruned.offsets \o Repeat(pruned.nonzeros, into - from)
                   ELSE pruned.offsets
    IN  [pruned EXCEPT !.offsets = offsets, !.columns = columns, !.rows = rows]

ResizePanics(mat, rows, columns) ==
    (rows < mat.rows \/ columns < mat.columns) /\ RetainPanics(mat, Within(rows, columns))

(* ---------------------------- transpose -------------------------------- *)

(* SetAll that passes over the explicitly stored zeros *)
RECURSIVE SetAllSkipsZero(_, _, _)
SetAllSkipsZero(mat, items, n) ==
    IF n > Len(items) THEN mat
    ELSE IF IsZero(items[n][3]) THEN SetAllSkipsZero(mat, items, n + 1)
    ELSE SetAllSkipsZero(Set(mat, items[n][2], items[n][1], items[n][3]), items, n + 1)

RECURSIVE SetAll(_, _, _)
SetAll(mat, items, n) ==
    IF n > Len(items) THEN mat
    ELSE SetAll(Set(mat, items[n][2], items[n][1], items[n][3]), items, n + 1)

TransposeFlipsVariant(mat) ==
    [mat EXCEPT !.rows = mat.columns, !.columns = mat.rows,
                !.variant = IF mat.variant = "Column" THEN "Row" ELSE "Column"]

(* Transpose for Compressed: set((j, i), value) for every item of iter() *)
Transpose(mat) ==
    SetAll(WithCapacity(mat.columns, mat.rows, mat.variant, mat.nonzeros),
           IterItems(mat).items, 1)

(* ------------------------- diagonal operand ---------------------------- *)

Diagonal(rows, columns, values) ==
    [rows |-> rows, columns |-> columns, values |-> values]

(* Validate for Diagonal *)
DiagonalValid(d) == Len(d.values) = Min(d.rows, d.columns)

RECURSIVE ScaleLoopByRow(_, _, _)
ScaleLoopByRow(s, it, right) ==
    LET n == IterNext(s.mat, it)
    IN  IF n.none THEN [s EXCEPT !.oob = n.oob]
        ELSE IF ~InRange(right.values, n.item[1]) THEN [s EXCEPT !.oob = TRUE]
        ELSE ScaleLoopByRow(
                 [s EXCEPT !.mat.values[n.it.taken] = @ * At(right.values, n.item[1])],
                 n.it, right)

(* for (_, j, value) in self.iter_mut() { *value = *value * right[j] } *)
RECURSIVE ScaleLoop(_, _, _)
ScaleLoop(s, it, right) ==
    LET n == IterNext(s.mat, it)
    IN  IF n.none THEN [s EXCEPT !.oob = n.oob]
        ELSE IF ~InRange(right.values, n.item[2]) THEN [s EXCEPT !.oob = TRUE]
        ELSE ScaleLoop(
                 [s EXCEPT !.mat.values[n.it.taken] = @ * At(right.values, n.item[2])],
                 n.it, right)

(* multiply_self without the resize of the receiver *)
MultiplySelfRunNoResize(mat, right) ==
    ScaleLoop([mat |-> mat, oob |-> FALSE], Iter, right)

(* MultiplySelf<Diagonal> for Compressed *)
MultiplySelfRun(mat, right) ==
    ScaleLoop([mat |-> Resize(mat, mat.rows, right.columns),
               oob |-> ResizePanics(mat, mat.rows, right.columns)], Iter, right)

MultiplySelf(mat, right) == MultiplySelfRun(mat, right).mat

(* -------------------- the dense matrix and a diagonal ------------------- *)

(* Conventional::resize *)
ConventionalResize(d, rows, columns) ==
    IF d.rows = rows
    THEN IF d.columns > columns
         THEN Conventional(rows, columns, Truncate(d.values, rows * columns))
         ELSE Conventional(rows, columns,
                           d.values \o Repeat(Zero, rows * (columns - d.columns)))
    ELSE Conventional(rows, columns,
             [q \in 1..(rows * columns) |->
                 LET i == (q - 1) % rows
                     j == (q - 1) \div rows
                 IN  IF i < Min(d.rows, rows) /\ j < Min(d.columns, columns)
                     THEN ConventionalIndex(d, i, j) ELSE Zero])

(* for i in 0..rows { self[(i, j)] = factor * self[(i, j)] } *)
RECURSIVE DenseScaleColumn(_, _, _, _)
DenseScaleColumn(s, factor, j, i) ==
    IF s.oob \/ i >= s.mat.rows THEN s
    ELSE IF ~InRange(s.mat.values, j * s.mat.rows + i) THEN [s EXCEPT !.oob = TRUE]
    ELSE DenseScaleColumn(
             [s EXCEPT !.mat.values[j * s.mat.rows + i + 1] = factor * @],
             factor, j, i + 1)

(* for j in 0..insides { let factor = right[j]; ... } *)
RECURSIVE DenseScale(_, _, _, _)
DenseScale(s, right, insides, j) ==
    IF s.oob \/ j >= insides THEN s
    ELSE IF ~InRange(right.values, j) THEN [s EXCEPT !.oob = TRUE]
    ELSE DenseScale(DenseScaleColumn(s, At(right.values, j), j, 0), right, insides, j + 1)

(* MultiplySelf<Diagonal> for Conventional *)
ConventionalMultiplySelf(d, right) ==
    DenseScale([mat |-> ConventionalResize(d, d.rows, right.columns), oob |-> FALSE],
               right, d.columns, 0)

(* ------------------------- counted nonzeros ---------------------------- *)

(* values.iter().fold(0, |sum, &value| if value.is_zero() { sum } else { sum + 1 }) *)
RECURSIVE NonzerosFold(_, _, _)
NonzerosFold(values, k, sum) ==
    IF k > Len(values) THEN sum
    ELSE NonzerosFold(values, k + 1, IF IsZero(values[k]) THEN sum ELSE sum + 1)

(* the nonzeros field in place of the count *)
MatrixNonzerosField(mat) == mat.nonzeros

(* Matrix::nonzeros for Compressed *)
MatrixNonzeros(mat) == NonzerosFold(mat.values, 1, 0)

(* ---------------------------- conversions ------------------------------ *)

(* From<&Conventional> for Compressed: one set per value that is not zero *)
(* FromConventionalLoop that stores the zero elements too *)
RECURSIVE FromConventionalLoopAll(_, _, _)
FromConventionalLoopAll(matrix, conventional, k) ==
    IF k >= Len(conventional.values) THEN matrix
    ELSE FromConventionalLoopAll(
             Set(matrix, k % conventional.rows, k \div conventional.rows,
                 At(conventional.values, k)),
             conventional, k + 1)

RECURSIVE FromConventionalLoop(_, _, _)
FromConventionalLoop(matrix, conventional, k) ==
    IF k >= Len(conventional.values) THEN matrix
    ELSE LET value == At(conventional.values, k)
             rows == conventional.rows
         IN  FromConventionalLoop(
                 IF ~IsZero(value) THEN Set(matrix, k % rows, k \div rows, value)
                 ELSE matrix,
                 conventional, k + 1)

FromConventional(conventional) ==
    FromConventionalLoop(New(conventional.rows, conventional.columns, "Column"),
                         conventional, 0)

(* From<&Dense> for Compressed (src/src/compressed.rs): the append-only    *)
(* construction; s = (values, indices, offsets, k), one call per column     *)
RECURSIVE FromDenseRows(_, _, _)
FromDenseRows(s, matrix, i) ==
    IF i >= matrix.rows THEN s
    ELSE LET value == At(matrix.values, s.k)
             t == IF value # Zero
                  THEN [s EXCEPT !.values = Append(@, value), !.indices = Append(@, i)]
                  ELSE s
         IN  FromDenseRows([t EXCEPT !.k = @ + 1], matrix, i + 1)

RECURSIVE FromDenseColumns(_, _, _)
FromDenseColumns(s, matrix, j) ==
    IF j >= matrix.columns THEN s
    ELSE FromDenseColumns(
             FromDenseRows([s EXCEPT !.offsets = Append(@, Len(s.values))], matrix, 0),
             matrix, j + 1)

FromDense(matrix) ==
    LET s == FromDenseColumns([values |-> <<>>, indices |-> <<>>, offsets |-> <<>>, k |-> 0],
                              matrix, 0)
    IN  Compressed(matrix.rows, matrix.columns, Len(s.values), "Column",
                   s.values, s.indices, Append(s.offsets, Len(s.values)))

(* From<&Compressed> for Conventional: the writes of one major group *)
(* IntoGroup with the number of columns as the stride of a column *)
RECURSIVE IntoGroupStride(_, _, _, _, _)
IntoGroupStride(values, mat, major, k, end) ==
    IF k >= end THEN values
    ELSE LET at == IF mat.variant = "Row"
                   THEN At(mat.indices, k) * mat.rows + major
                   ELSE major * mat.columns + At(mat.indices, k)
         IN  IntoGroupStride([values EXCEPT ![at + 1] = At(mat.values, k)],
                             mat, major, k + 1, end)

(* IntoGroup that places the entries of a Row matrix as those of a Column   *)
(* matrix                                                                   *)
RECURSIVE IntoGroupRowAsColumn(_, _, _, _, _)
IntoGroupRowAsColumn(values, mat, major, k, end) ==
    IF k >= end THEN values
    ELSE LET at == major * mat.rows + At(mat.indices, k)
         IN  IntoGroupRowAsColumn([values EXCEPT ![at + 1] = At(mat.values, k)],
                                  mat, major, k + 1, end)

RECURSIVE IntoGroup(_, _, _, _, _)
IntoGroup(values, mat, major, k, end) ==
    IF k >= end THEN values
    ELSE LET at == IF mat.variant = "Row"
                   THEN At(mat.indices, k) * mat.rows + major
                   ELSE major * mat.rows + At(mat.indices, k)
         IN  IntoGroup([values EXCEPT ![at + 1] = At(mat.values, k)], mat, major, k + 1, end)

RECURSIVE IntoGroups(_, _, _, _)
IntoGroups(values, mat, major, count) ==
    IF major >= count THEN values
    ELSE IntoGroups(
             IntoGroup(values, mat, major, At(mat.offsets, major), At(mat.offsets, major + 1)),
             mat, major + 1, count)

IntoConventional(mat) ==
    Conventional(mat.rows, mat.columns,
                 IntoGroups(ConventionalNew(mat.rows, mat.columns).values, mat, 0,
                            IF mat.variant = "Row" THEN mat.rows ELSE mat.columns))

(* FromDiagonal whose offsets keep counting past the last diagonal entry *)
FromDiagonalUnclamped(matrix) ==
    LET nonzeros == Len(matrix.values)
        indices == [q \in 1..nonzeros |-> q - 1]
        offsets == [q \in 1..(matrix.columns + 1) |-> q - 1]
    IN  Compressed(matrix.rows, matrix.columns, nonzeros, "Column",
                   matrix.values, indices, offsets)

(* From<Diagonal> for Compressed *)
FromDiagonal(matrix) ==
    LET nonzeros == Len(matrix.values)
        indices == [q \in 1..nonzeros |-> q - 1]
        offsets == [q \in 1..(matrix.columns + 1) |->
                        IF q - 1 < nonzeros THEN q - 1 ELSE nonzeros]
    IN  Compressed(matrix.rows, matrix.columns, nonzeros, "Column",
                   matrix.values, indices, offsets)

(* ------------------------- multiply kernels ---------------------------- *)
(* The accumulator is the whole slice c; a kernel state is (c, oob), oob    *)
(* set by the first index that falls outside a vector or a sub-slice.       *)

(* multiply_vector_left: the updates of one group j, for k in k..end;       *)
(* bk and cl are the starts of the sub-slices b[bk..bk+p] and c[cl..cl+m]   *)
RECURSIVE LeftGroup(_, _, _, _, _, _, _, _)
LeftGroup(s, a, b, bk, cl, rows, j, k) ==
    IF s.oob \/ k >= At(a.offsets, j + 1) THEN s
    ELSE IF ~InRange(a.indices, k) \/ ~InRange(a.values, k) THEN [s EXCEPT !.oob = TRUE]
    ELSE IF At(a.indices, k) >= rows THEN [s EXCEPT !.oob = TRUE]
    ELSE LeftGroup(
             [s EXCEPT !.c[cl + At(a.indices, k) + 1] = @ + At(a.values, k) * At(b, bk + j)],
             a, b, bk, cl, rows, j, k + 1)

(* multiply_vector_left: for j in 0..p *)
RECURSIVE LeftVector(_, _, _, _, _, _, _, _)
LeftVector(s, a, b, bk, cl, rows, p, j) ==
    IF s.oob \/ j >= p THEN s
    ELSE IF ~InRange(a.offsets, j + 1) THEN [s EXCEPT !.oob = TRUE]
    ELSE LeftVector(LeftGroup(s, a, b, bk, cl, rows, j, At(a.offsets, j)),
                    a, b, bk, cl, rows, p, j + 1)

(* multiply_matrix_left: one multiply_vector_left per output column *)
RECURSIVE LeftMatrix(_, _, _, _, _, _, _)
LeftMatrix(s, a, b, rows, p, n, l) ==
    IF s.oob \/ l >= n THEN s
    ELSE IF (l + 1) * p > Len(b) \/ (l + 1) * rows > Len(s.c) THEN [s EXCEPT !.oob = TRUE]
    ELSE LeftMatrix(LeftVector(s, a, b, l * p, l * rows, rows, p, 0),
                    a, b, rows, p, n, l + 1)

(* MultiplyInto<[T], [T]> for Compressed: n = right.len() / p panics when   *)
(* the matrix has no columns                                                *)
MultiplyIntoLeft(a, right, result) ==
    IF a.columns = 0 THEN [c |-> result, oob |-> TRUE]
    ELSE LeftMatrix([c |-> result, oob |-> FALSE], a, right,
                    a.rows, a.columns, Len(right) \div a.columns, 0)

(* RightEntry that overwrites the accumulator instead of adding to it *)
RECURSIVE RightEntryOverwrites(_, _, _, _, _, _, _)
RightEntryOverwrites(s, a, b, cl, rows, k, i) ==
    IF s.oob \/ i >= rows THEN s
    ELSE IF ~InRange(a, At(b.indices, k) * rows + i) THEN [s EXCEPT !.oob = TRUE]
    ELSE RightEntryOverwrites(
             [s EXCEPT !.c[cl + i + 1] = At(b.values, k) * At(a, At(b.indices, k) * rows + i)],
             a, b, cl, rows, k, i + 1)

(* multiply_vector_right: for i in i..m, for one stored entry k of column j *)
RECURSIVE RightEntry(_, _, _, _, _, _, _)
RightEntry(s, a, b, cl, rows, k, i) ==
    IF s.oob \/ i >= rows THEN s
    ELSE IF ~InRange(a, At(b.indices, k) * rows + i) THEN [s EXCEPT !.oob = TRUE]
    ELSE RightEntry(
             [s EXCEPT !.c[cl + i + 1] = @ + At(b.values, k) * At(a, At(b.indices, k) * rows + i)],
             a, b, cl, rows, k, i + 1)

(* multiply_vector_right: for k in offsets[j]..offsets[j + 1] *)
RECURSIVE RightVector(_, _, _, _, _, _, _)
RightVector(s, a, b, cl, rows, k, end) ==
    IF s.oob \/ k >= end THEN s
    ELSE IF rows > 0 /\ (~InRange(b.indices, k) \/ ~InRange(b.values, k))
    THEN [s EXCEPT !.oob = TRUE]
    ELSE RightVector(RightEntry(s, a, b, cl, rows, k, 0), a, b, cl, rows, k + 1, end)

(* multiply_matrix_right: one multiply_vector_right per column j of b *)
RECURSIVE RightMatrix(_, _, _, _, _, _)
RightMatrix(s, a, b, rows, n, j) ==
    IF s.oob \/ j >= n THEN s
    ELSE IF (j + 1) * rows > Len(s.c) \/ ~InRange(b.offsets, j + 1)
    THEN [s EXCEPT !.oob = TRUE]
    ELSE RightMatrix(
             RightVector(s, a, b, j * rows, rows, At(b.offsets, j), At(b.offsets, j + 1)),
             a, b, rows, n, j + 1)

(* MultiplyInto<Compressed, [T]> for Conventional *)
MultiplyIntoRight(left, b, result) ==
    RightMatrix([c |-> result, oob |-> FALSE], left.values, b, left.rows, b.columns, 0)

(* --------------------------- state machine ----------------------------- *)
(* m is the matrix the program owns, pre its value before the last call,   *)
(* op the last call with its arguments (and result, for get), panicked     *)
(* whether that call ended in an out-of-range panic.  Every call is one    *)
(* step; the caller then takes the step DoReturn, which forgets the call.  *)

Call(name, arg) == [name |-> name, arg |-> arg]

Range(s) == {s[q] : q \in 1..Len(s)}

ConventionalInputs ==
    UNION {{Conventional(r, c, v) : v \in [1..(r * c) -> Values]} : r \in RowDims, c \in ColDims}

DiagonalInputs ==
    UNION {{Diagonal(r, c, v) : v \in [1..Min(r, c) -> Values]} : r \in RowDims, c \in ColDims}

(* Before its first constructor call the program owns no matrix; the      *)
(* placeholder is the empty 0 x 0 matrix.                                   *)
Init ==
    /\ m = New(0, 0, "Column")
    /\ op = Call("start", <<>>)
    /\ pre = m
    /\ panicked = FALSE
    /\ twin = New(0, 0, "Column")

Fresh == op.name = "start"

Idle == op.name = "idle" /\ ~panicked

DoNew ==
    /\ Fresh
    /\ \E r \in RowDims, c \in ColDims, variant \in Variants :
          /\ m' = New(r, c, variant)
          /\ op' = Call("new", <<r, c, variant>>)
    /\ pre' = m'
    /\ UNCHANGED panicked
    /\ UNCHANGED twin

DoWithCapacity ==
    /\ Fresh
    /\ \E r \in RowDims, c \in ColDims, variant \in Variants, capacity \in 0..MaxCapacity :
          /\ m' = WithCapacity(r, c, variant, capacity)
          /\ op' = Call("with_capacity", <<r, c, variant, capacity>>)
    /\ pre' = m'
    /\ UNCHANGED panicked
    /\ UNCHANGED twin

DoZero ==
    /\ Fresh
    /\ \E r \in RowDims, c \in ColDims :
          /\ m' = MatrixZero(r, c)
          /\ op' = Call("zero", <<r, c>>)
    /\ pre' = m'
    /\ UNCHANGED panicked
    /\ UNCHANGED twin

DoZeroLegacy ==
    /\ Fresh
    /\ \E r \in RowDims, c \in ColDims :
          /\ m' = MatrixZeroLegacy(r, c)
          /\ op' = Call("zero", <<r, c>>)
    /\ pre' = m'
    /\ UNCHANGED panicked
    /\ UNCHANGED twin

DoFromConventional ==
    /\ Fresh
    /\ \E conventional \in ConventionalInputs :
          /\ m' = FromConventional(conventional)
          /\ op' = Call("from_conventional", conventional)
    /\ pre' = m'
    /\ UNCHANGED panicked
    /\ UNCHANGED twin

DoFromDiagonal ==
    /\ Fresh
    /\ \E diagonal \in DiagonalInputs :
          /\ m' = FromDiagonal(diagonal)
          /\ op' = Call("from_diagonal", diagonal)
    /\ pre' = m'
    /\ UNCHANGED panicked
    /\ UNCHANGED twin

DoGet ==
    /\ Idle
    /\ \E i \in 0..(m.rows - 1), j \in 0..(m.columns - 1) :
          IF OffsetsPanic(m, i, j)
          THEN /\ op' = Call("get", <<i, j>>)
               /\ panicked' = TRUE
          ELSE /\ op' = Call("get", <<i, j, Get(m, i, j)>>)
               /\ panicked' = FALSE
    /\ pre' = m
    /\ UNCHANGED m
    /\ UNCHANGED twin

DoSet ==
    /\ Idle
    /\ \E i \in 0..(m.rows - 1), j \in 0..(m.columns - 1), value \in Values :
          /\ op' = Call("set", <<i, j, value>>)
          /\ IF OffsetsPanic(m, i, j)
             THEN m' = m /\ panicked' = TRUE
             ELSE m' = Set(m, i, j, value) /\ panicked' = FALSE
    /\ pre' = m
    /\ UNCHANGED twin

DoRetain ==
    /\ Idle
    /\ \E keep \in SUBSET Range(IterItems(m).items) :
          LET run == RetainRun(m, Keeping(keep))
          IN  /\ m' = run.mat
              /\ panicked' = run.oob
              /\ op' = Call("retain", keep)
    /\ pre' = m
    /\ UNCHANGED twin

DoResize ==
    /\ Idle
    /\ \E r \in RowDims, c \in ColDims :
          /\ m' = Resize(m, r, c)
          /\ panicked' = ResizePanics(m, r, c)
          /\ op' = Call("resize", <<r, c>>)
    /\ pre' = m
    /\ UNCHANGED twin

DoTranspose ==
    /\ Idle
    /\ m.columns <= MaxRows /\ m.rows <= MaxCols
    /\ m' = Transpose(m)
    /\ op' = Call("transpose", <<>>)
    /\ pre' = m
    /\ UNCHANGED panicked
    /\ UNCHANGED twin

DoMultiplySelf ==
    /\ Idle
    /\ \E right \in DiagonalInputs :
          /\ m.columns = right.rows
          /\ LET run == MultiplySelfRun(m, right)
             IN  /\ \A q \in 1..Len(run.mat.values) : run.mat.values[q] \in Values
                 /\ m' = run.mat
                 /\ panicked' = run.oob
                 /\ op' = Call("multiply_self", right)
    /\ pre' = m
    /\ UNCHANGED twin

(* the accumulators the callers pre-seed: constant or alternating values *)
Seeds(len) ==
    {[q \in 1..len |-> (start + q * step) % (MaxVal + 1)] : start \in Values, step \in 0..1}

(* a.multiply_into(right, result) for the compressed matrix a = m, a dense  *)
(* columns x n operand and a rows x n accumulator                           *)
DoMultiplyIntoLeft ==
    /\ Idle
    /\ \E n \in ColDims :
          \E right \in [1..(m.columns * n) -> Values], seed \in Seeds(m.rows * n) :
              LET run == MultiplyIntoLeft(m, right, seed)
              IN  /\ op' = Call("multiply_into_left",
                                [right |-> right, n |-> n, seed |-> seed, result |-> run.c])
                  /\ panicked' = run.oob
    /\ pre' = m
    /\ UNCHANGED m
    /\ UNCHANGED twin

(* left.multiply_into(b, result) for a dense rows x m.rows matrix left, the *)
(* compressed matrix b = m and a rows x m.columns accumulator               *)
DoMultiplyIntoRight ==
    /\ Idle
    /\ \E rows \in ColDims :
          \E values \in [1..(rows * m.rows) -> Values], seed \in Seeds(rows * m.columns) :
              LET left == Conventional(rows, m.rows, values)
                  run == MultiplyIntoRight(left, m, seed)
              IN  /\ op' = Call("multiply_into_right",
                                [left |-> left, seed |-> seed, result |-> run.c])
                  /\ panicked' = run.oob
    /\ pre' = m
    /\ UNCHANGED m
    /\ UNCHANGED twin

DoNonzeros ==
    /\ Idle
    /\ op' = Call("nonzeros", MatrixNonzeros(m))
    /\ pre' = m
    /\ UNCHANGED <<m, panicked>>
    /\ UNCHANGED twin

(* a full pass of iter(), one more next() at its end, and a second pass *)
DoIter ==
    /\ Idle
    /\ LET first == IterItems(m)
           cursor == [taken |-> Len(first.items),
                      major |-> IF first.items = <<>> THEN 0
                                ELSE IF m.variant = "Column"
                                THEN first.items[Len(first.items)][2]
                                ELSE first.items[Len(first.items)][1]]
       IN  /\ op' = Call("iter", [items |-> first.items,
                                  after |-> IterNext(m, cursor).none,
                                  again |-> IterItems(m).items])
           /\ panicked' = first.oob
    /\ pre' = m
    /\ UNCHANGED m
    /\ UNCHANGED twin

DoReturn ==
    /\ op.name \notin {"start", "idle", "resizing"} /\ ~panicked
    /\ op' = Call("idle", <<>>)
    /\ pre' = m
    /\ UNCHANGED <<m, panicked>>
    /\ UNCHANGED twin

Next ==
    \/ DoNew
    \/ DoWithCapacity
    \/ DoZero
    \/ DoFromConventional
    \/ DoFromDiagonal
    \/ DoGet
    \/ DoSet
    \/ DoRetain
    \/ DoResize
    \/ DoTranspose
    \/ DoMultiplySelf
    \/ DoIter
    \/ DoNonzeros
    \/ DoReturn

Spec == Init /\ [][Next]_vars

(* The multiply kernels on every matrix that new and set can build. *)
NextMultiply ==
    \/ DoNew
    \/ DoSet
    \/ DoMultiplyIntoLeft
    \/ DoMultiplyIntoRight
    \/ DoReturn

SpecMultiply == Init /\ [][NextMultiply]_vars

(* The empty constructors of both compressed modules, each followed by *)
(* in-bounds reads and writes.                                          *)
NextConstruct ==
    \/ DoNew
    \/ DoWithCapacity
    \/ DoZero
    \/ DoZeroLegacy
    \/ DoGet
    \/ DoSet
    \/ DoReturn

SpecConstruct == Init /\ [][NextConstruct]_vars

(* A Row matrix m and a Column matrix twin of one size, driven by the same *)
(* calls.                                                                  *)
DoNewBoth ==
    /\ Fresh
    /\ \E r \in RowDims, c \in ColDims :
          /\ m' = New(r, c, "Row")
          /\ twin' = New(r, c, "Column")
          /\ op' = Call("new", <<r, c>>)
    /\ pre' = m'
    /\ UNCHANGED panicked

DoSetBoth ==
    /\ Idle
    /\ \E i \in 0..(m.rows - 1), j \in 0..(m.columns - 1), value \in Values :
          /\ op' = Call("set", <<i, j, value>>)
          /\ m' = IF OffsetsPanic(m, i, j) THEN m ELSE Set(m, i, j, value)
          /\ twin' = IF OffsetsPanic(twin, i, j) THEN twin ELSE Set(twin, i, j, value)
          /\ panicked' = (OffsetsPanic(m, i, j) \/ OffsetsPanic(twin, i, j))
    /\ pre' = m

DoRetainBoth ==
    /\ Idle
    /\ \E keep \in SUBSET (Range(IterItems(m).items) \cup Range(IterItems(twin).items)) :
          LET run == RetainRun(m, Keeping(keep))
              other == RetainRun(twin, Keeping(keep))
          IN  /\ m' = run.mat
              /\ twin' = other.mat
              /\ panicked' = (run.oob \/ other.oob)
              /\ op' = Call("retain", keep)
    /\ pre' = m

DoResizeBoth ==
    /\ Idle
    /\ \E r \in RowDims, c \in ColDims :
          /\ m' = Resize(m, r, c)
          /\ twin' = Resize(twin, r, c)
          /\ panicked' = (ResizePanics(m, r, c) \/ ResizePanics(twin, r, c))
          /\ op' = Call("resize", <<r, c>>)
    /\ pre' = m

NextBoth ==
    \/ DoNewBoth
    \/ DoSetBoth
    \/ DoRetainBoth
    \/ DoResizeBoth
    \/ DoReturn

SpecBoth == Init /\ [][NextBoth]_vars

(* ------------------------- resize, step by step ------------------------ *)

(* one iteration of the loop of retain: the group advance, one call of the *)
(* condition, and either k += 1 or the removal of entry k                   *)
RetainStep(s, p) ==
    LET major == AdvanceMajor(s.mat.offsets, s.major, s.k)
    IN  IF major = -1 THEN [s EXCEPT !.oob = TRUE]
        ELSE LET index == At(s.mat.indices, s.k)
                 value == At(s.mat.values, s.k)
                 i == IF s.mat.variant = "Column" THEN index ELSE major
                 j == IF s.mat.variant = "Column" THEN major ELSE index
                 t == [s EXCEPT !.major = major,
                                !.calls = Append(@, <<i, j, value>>)]
             IN  IF Condition(p, i, j, value)
                 THEN [t EXCEPT !.k = @ + 1]
                 ELSE [t EXCEPT !.mat.nonzeros = @ - 1,
                                !.mat.values = RemoveAt(@, s.k),
                                !.mat.indices = RemoveAt(@, s.k),
                                !.mat.offsets = ShiftFrom(@, major + 1, -1)]

(* resize that never prunes *)
ResizeEntrySkipsRetain(mat, rows, columns) == "offsets"

(* if rows < self.rows || columns < self.columns { self.retain(..) } *)
ResizeEntry(mat, rows, columns) ==
    IF rows < mat.rows \/ columns < mat.columns THEN "retain" ELSE "offsets"

(* the truncate or extend of offsets *)
ResizeOffsets(mat, rows, columns) ==
    LET from == IF mat.variant = "Column" THEN mat.columns ELSE mat.rows
        into == IF mat.variant = "Column" THEN columns ELSE rows
    IN  IF from > into THEN Truncate(mat.offsets, into + 1)
        ELSE IF from < into THEN mat.offsets \o Repeat(mat.nonzeros, into - from)
        ELSE mat.offsets

Resizing(rows, columns, pc, k, major) ==
    Call("resizing", [rows |-> rows, columns |-> columns, pc |-> pc,
                      k |-> k, major |-> major])

AtStep(pc) == op.name = "resizing" /\ op.arg.pc = pc /\ ~panicked

StepCall ==
    /\ Idle
    /\ \E r \in RowDims, c \in ColDims :
          op' = Resizing(r, c, ResizeEntry(m, r, c), 0, 0)
    /\ pre' = m
    /\ UNCHANGED <<m, panicked, twin>>

StepRetain ==
    /\ AtStep("retain")
    /\ IF op.arg.k < Len(m.indices)
       THEN LET s == RetainStep([mat |-> m, k |-> op.arg.k, major |-> op.arg.major,
                                 calls |-> <<>>, oob |-> FALSE],
                                Within(op.arg.rows, op.arg.columns))
            IN  /\ m' = s.mat
                /\ panicked' = s.oob
                /\ op' = Resizing(op.arg.rows, op.arg.columns, "retain", s.k, s.major)
       ELSE /\ op' = Resizing(op.arg.rows, op.arg.columns, "offsets", op.arg.k, op.arg.major)
            /\ UNCHANGED <<m, panicked>>
    /\ UNCHANGED <<pre, twin>>

StepOffsets ==
    /\ AtStep("offsets")
    /\ m' = [m EXCEPT !.offsets = ResizeOffsets(m, op.arg.rows, op.arg.columns)]
    /\ op' = Resizing(op.arg.rows, op.arg.columns, "columns", op.arg.k, op.arg.major)
    /\ UNCHANGED <<pre, panicked, twin>>

StepColumns ==
    /\ AtStep("columns")
    /\ m' = [m EXCEPT !.columns = op.arg.columns]
    /\ op' = Resizing(op.arg.rows, op.arg.columns, "rows", op.arg.k, op.arg.major)
    /\ UNCHANGED <<pre, panicked, twin>>

StepRows ==
    /\ AtStep("rows")
    /\ m' = [m EXCEPT !.rows = op.arg.rows]
    /\ op' = Call("resize", <<op.arg.rows, op.arg.columns>>)
    /\ UNCHANGED <<pre, panicked, twin>>

NextSteps ==
    \/ DoNew
    \/ DoSet
    \/ StepCall
    \/ StepRetain
    \/ StepOffsets
    \/ StepColumns
    \/ StepRows
    \/ DoReturn

SpecSteps == Init /\ [][NextSteps]_vars

(* A dense receiver: m holds a Conventional matrix. *)
DoFromVec ==
    /\ Fresh
    /\ \E d \in ConventionalInputs :
          /\ m' = d
          /\ op' = Call("from_vec", <<d.rows, d.columns>>)
    /\ pre' = m'
    /\ UNCHANGED <<panicked, twin>>

DoDenseResize ==
    /\ Idle
    /\ \E r \in RowDims, c \in ColDims :
          /\ m' = ConventionalResize(m, r, c)
          /\ op' = Call("dense_resize", <<r, c>>)
    /\ pre' = m
    /\ UNCHANGED <<panicked, twin>>

DoDenseMultiplySelf ==
    /\ Idle
    /\ \E right \in DiagonalInputs :
          /\ m.columns = right.rows
          /\ LET run == ConventionalMultiplySelf(m, right)
             IN  /\ \A q \in 1..Len(run.mat.values) : run.mat.values[q] \in Values
                 /\ m' = run.mat
                 /\ panicked' = run.oob
                 /\ op' = Call("dense_multiply_self", right)
    /\ pre' = m
    /\ UNCHANGED twin

NextDense ==
    \/ DoFromVec
    \/ DoDenseResize
    \/ DoDenseMultiplySelf
    \/ DoReturn

SpecDense == Init /\ [][NextDense]_vars

(* ------------------- the logical content of a matrix ------------------- *)
(* Read off the three vectors directly, without the code's loops.          *)

MajorCount(mat) == IF mat.variant = "Column" THEN mat.columns ELSE mat.rows

MinorCount(mat) == IF mat.variant = "Column" THEN mat.rows ELSE mat.columns

Offset(mat, g) == IF InRange(mat.offsets, g) THEN At(mat.offsets, g) ELSE -1

(* the storage positions of major group g *)
GroupSlots(mat, g) ==
    {k \in 0..(Min(Len(mat.indices), Len(mat.values)) - 1) :
        Offset(mat, g) <= k /\ k < Offset(mat, g + 1)}

(* the storage positions that hold logical coordinate (row, column) *)
SlotsOf(mat, row, column) ==
    LET major == IF mat.variant = "Column" THEN column ELSE row
        minor == IF mat.variant = "Column" THEN row ELSE column
    IN  {k \in GroupSlots(mat, major) : At(mat.indices, k) = minor}

IsStored(mat, row, column) == SlotsOf(mat, row, column) # {}

StoredValue(mat, row, column) ==
    IF IsStored(mat, row, column)
    THEN At(mat.values, CHOOSE k \in SlotsOf(mat, row, column) : TRUE)
    ELSE Zero

(* the stored entries of group g as (row, column, value) triples *)
GroupTriples(mat, g) ==
    {IF mat.variant = "Column"
     THEN <<At(mat.indices, k), g, At(mat.values, k)>>
     ELSE <<g, At(mat.indices, k), At(mat.values, k)>> : k \in GroupSlots(mat, g)}

StoredTriples(mat) == UNION {GroupTriples(mat, g) : g \in 0..(MajorCount(mat) - 1)}

Monotone(s) == \A q \in 1..(Len(s) - 1) : s[q] <= s[q + 1]

InBounds(mat, i, j) == i \in 0..(mat.rows - 1) /\ j \in 0..(mat.columns - 1)

Coordinates(mat) == (0..(mat.rows - 1)) \X (0..(mat.columns - 1))

(* ------------------------------ claims --------------------------------- *)

(* C1: in every reachable state nonzeros = len(values) = len(indices) and  *)
(* len(offsets) = major_count + 1, where major_count is columns for the    *)
(* Column variant and rows for the Row variant.                            *)
C1_LengthInvariant ==
    /\ m.nonzeros = Len(m.values)
    /\ m.nonzeros = Len(m.indices)
    /\ Len(m.offsets) = MajorCount(m) + 1

(* a Row matrix whose rows a resize has cut, dropping some but not all *)
C1_Witness ==
    /\ op.name = "resize"
    /\ m.variant = "Row"
    /\ m.rows < pre.rows
    /\ 0 < m.nonzeros /\ m.nonzeros < pre.nonzeros

(* C2: in every reachable state offsets[0] = 0, offsets is monotone        *)
(* non-decreasing and its last element equals nonzeros.                    *)
C2_OffsetsInvariant ==
    /\ Len(m.offsets) >= 1
    /\ At(m.offsets, 0) = 0
    /\ Monotone(m.offsets)
    /\ m.offsets[Len(m.offsets)] = m.nonzeros

(* a set has inserted into the first of several groups *)
C2_Witness ==
    /\ op.name = "set"
    /\ m.nonzeros = pre.nonzeros + 1
    /\ (IF m.variant = "Column" THEN op.arg[2] ELSE op.arg[1]) = 0
    /\ MajorCount(m) >= 2
    /\ pre.nonzeros >= 2

(* C3: in every reachable state the indices of every major group are       *)
(* strictly increasing, so no coordinate is stored twice.                  *)
C3_SortednessInvariant ==
    \A g \in 0..(MajorCount(m) - 1) :
        \A k \in GroupSlots(m, g), l \in GroupSlots(m, g) :
            k < l => At(m.indices, k) < At(m.indices, l)

(* a set has inserted between two stored entries of one group *)
C3_Witness ==
    /\ op.name = "set"
    /\ m.nonzeros = pre.nonzeros + 1
    /\ \E g \in 0..(MajorCount(m) - 1) :
          /\ Cardinality(GroupSlots(m, g)) = 3
          /\ \E k \in GroupSlots(m, g) :
                /\ k - 1 \in GroupSlots(m, g) /\ k + 1 \in GroupSlots(m, g)
                /\ SlotsOf(m, op.arg[1], op.arg[2]) = {k}

(* C4: set((i, j), v) followed immediately by get((i, j)) returns v, for   *)
(* either variant and every value, zero included.                          *)
C4_WriteRead ==
    op.name = "set" => Get(m, op.arg[1], op.arg[2]) = op.arg[3]

(* a zero has overwritten a stored nonzero of a Row matrix *)
C4_Witness ==
    /\ op.name = "set"
    /\ m.variant = "Row"
    /\ op.arg[3] = Zero
    /\ StoredValue(pre, op.arg[1], op.arg[2]) # Zero
    /\ op.arg[1] # op.arg[2]

(* C5: set adds exactly one to nonzeros when the coordinate has no stored   *)
(* entry, whatever the value; when the coordinate is stored it leaves       *)
(* nonzeros, indices and offsets unchanged and overwrites that one value.   *)
C5_NonzerosUnderSet ==
    op.name = "set" =>
        LET slots == SlotsOf(pre, op.arg[1], op.arg[2])
        IN  IF slots # {}
            THEN /\ m.nonzeros = pre.nonzeros
                 /\ m.indices = pre.indices
                 /\ m.offsets = pre.offsets
                 /\ \E k \in slots : m.values = [pre.values EXCEPT ![k + 1] = op.arg[3]]
            ELSE /\ m.nonzeros = pre.nonzeros + 1
                 /\ Len(m.values) = Len(pre.values) + 1
                 /\ Len(m.indices) = Len(pre.indices) + 1

(* a zero has been set at a coordinate that was not stored *)
C5_Witness ==
    /\ op.name = "set"
    /\ op.arg[3] = Zero
    /\ ~IsStored(pre, op.arg[1], op.arg[2])
    /\ m.nonzeros = pre.nonzeros + 1
    /\ pre.nonzeros >= 1

(* C6: get returns the stored value of a stored coordinate and zero of an   *)
(* unstored one, reads no vector out of range and leaves the matrix as it   *)
(* was; on a matrix converted from a dense matrix it returns the dense      *)
(* matrix's element.                                                        *)
C6_ReadCorrectness ==
    /\ \A c \in Coordinates(m) :
          LET major == IF m.variant = "Column" THEN c[2] ELSE c[1]
          IN  /\ InRange(m.offsets, major + 1)
              /\ At(m.offsets, major + 1) <= Len(m.indices)
              /\ At(m.offsets, major + 1) <= Len(m.values)
              /\ Get(m, c[1], c[2]) = StoredValue(m, c[1], c[2])
    /\ op.name = "get" =>
          /\ m = pre
          /\ op.arg[3] = StoredValue(pre, op.arg[1], op.arg[2])
    /\ op.name = "from_conventional" =>
          \A c \in Coordinates(m) : Get(m, c[1], c[2]) = ConventionalIndex(op.arg, c[1], c[2])

(* a get has read the last entry of the last row of a Row matrix *)
C6_Witness ==
    /\ op.name = "get"
    /\ m.variant = "Row"
    /\ op.arg = <<2, 1, 1>>
    /\ IsStored(m, 2, 0)

(* C7: converting a dense matrix to the compressed format and back gives    *)
(* the same rows, columns and values.                                       *)
C7_RoundTrip ==
    op.name = "from_conventional" =>
        LET back == IntoConventional(m)
        IN  /\ back.rows = op.arg.rows
            /\ back.columns = op.arg.columns
            /\ back.values = op.arg.values

(* a dense matrix with zero and nonzero elements in both columns *)
C7_Witness ==
    /\ op.name = "from_conventional"
    /\ op.arg.rows = 3 /\ op.arg.columns = 2
    /\ op.arg.values = <<0, 1, 0, 1, 0, 1>>

(* the positions, in column-major order, of the elements of a dense matrix *)
(* that are not zero                                                        *)
NonzeroPositions(d) ==
    SelectSeq([q \in 1..Len(d.values) |-> q - 1], LAMBDA k : At(d.values, k) # Zero)

(* the 5 x 3 example of the conversion test, in column-major order *)
ExampleDense ==
    Conventional(5, 3, <<0, 1, 0, 0, 0,  0, 0, 0, 2, 3,  0, 0, 0, 0, 4>>)

(* C8: converting a dense matrix gives a Column matrix that lists exactly   *)
(* the elements that are not zero in column-major order, offsets[j] being   *)
(* the number of them in the columns before j and nonzeros their total; it  *)
(* equals the result of the append-only construction, and the 5 x 3 example *)
(* gives values [1,2,3,4], indices [1,3,4,4], offsets [0,1,3,4].            *)
C8_DenseToCompressed ==
    op.name = "from_conventional" =>
          LET d == op.arg
              at == NonzeroPositions(d)
          IN  /\ m.variant = "Column"
              /\ m.rows = d.rows /\ m.columns = d.columns
              /\ m.nonzeros = Len(at)
              /\ m.values = [q \in 1..Len(at) |-> At(d.values, at[q])]
              /\ m.indices = [q \in 1..Len(at) |-> at[q] % d.rows]
              /\ m.offsets = [q \in 1..(d.columns + 1) |->
                                 Cardinality({r \in 1..Len(at) : at[r] \div d.rows < q - 1})]
              /\ m = FromDense(d)
              /\ FromConventional(ExampleDense) =
                    Compressed(5, 3, 4, "Column",
                               <<1, 2, 3, 4>>, <<1, 3, 4, 4>>, <<0, 1, 3, 4>>)
              /\ FromDense(ExampleDense) = FromConventional(ExampleDense)

(* a dense matrix with an all-zero first column and two nonzeros after it *)
C8_Witness ==
    /\ op.name = "from_conventional"
    /\ op.arg.rows = 3 /\ op.arg.columns = 2
    /\ op.arg.values = <<0, 0, 0, 1, 0, 1>>
    /\ m.offsets = <<0, 0, 2>>

(* C9: the conversion to the dense format returns a rows x columns matrix   *)
(* whose element (i, j) is the value stored at logical coordinate (i, j),   *)
(* or zero when none is stored; the group is the row for the Row variant    *)
(* and the column for the Column variant.                                   *)
C9_CompressedToDense ==
    LET d == IntoConventional(m)
    IN  /\ d.rows = m.rows
        /\ d.columns = m.columns
        /\ Len(d.values) = m.rows * m.columns
        /\ \A c \in Coordinates(m) :
              ConventionalIndex(d, c[1], c[2]) =
                  IF \E t \in StoredTriples(m) : t[1] = c[1] /\ t[2] = c[2]
                  THEN (CHOOSE t \in StoredTriples(m) : t[1] = c[1] /\ t[2] = c[2])[3]
                  ELSE Zero

(* a 3 x 2 Row matrix with entries off the diagonal *)
C9_Witness ==
    /\ m.variant = "Row"
    /\ m.rows = 3 /\ m.columns = 2
    /\ StoredTriples(m) = {<<0, 1, 1>>, <<2, 0, 1>>, <<2, 1, 0>>}
    /\ op.name = "idle"

(* C10: after retain every stored entry satisfies the predicate, offsets    *)
(* is monotone with its last element equal to nonzeros, a group all of      *)
(* whose entries were removed has offsets[g] = offsets[g + 1], and retain   *)
(* on an empty matrix changes nothing.                                      *)
C10_RetainCorrectness ==
    op.name = "retain" =>
        /\ \A t \in StoredTriples(m) : Condition(Keeping(op.arg), t[1], t[2], t[3])
        /\ \A k \in 0..(Min(Len(m.indices), Len(m.values)) - 1) :
              \E g \in 0..(MajorCount(m) - 1) : k \in GroupSlots(m, g)
        /\ Monotone(m.offsets)
        /\ m.offsets[Len(m.offsets)] = m.nonzeros
        /\ \A g \in 0..(MajorCount(pre) - 1) :
              (\A t \in GroupTriples(pre, g) : ~Condition(Keeping(op.arg), t[1], t[2], t[3]))
                  => Offset(m, g) = Offset(m, g + 1)
        /\ pre.nonzeros = 0 => m = pre

(* a retain has emptied the middle row of a Row matrix and kept entries     *)
(* before and after it                                                      *)
C10_Witness ==
    /\ op.name = "retain"
    /\ m.variant = "Row" /\ m.rows = 3
    /\ Cardinality(GroupSlots(pre, 1)) = 2
    /\ GroupSlots(m, 1) = {}
    /\ GroupSlots(m, 0) # {} /\ GroupSlots(m, 2) # {}
    /\ m.nonzeros < pre.nonzeros - 2

(* the length and offsets invariants of a matrix *)
WellFormed(mat) ==
    /\ mat.nonzeros = Len(mat.values)
    /\ mat.nonzeros = Len(mat.indices)
    /\ Len(mat.offsets) = MajorCount(mat) + 1
    /\ At(mat.offsets, 0) = 0
    /\ Monotone(mat.offsets)
    /\ mat.offsets[Len(mat.offsets)] = mat.nonzeros

(* the stored entries in storage order, as (row, column, value) triples *)
Listing(mat) ==
    [q \in 1..Min(Len(mat.indices), Len(mat.values)) |->
        LET g == CHOOSE g \in 0..MajorCount(mat) :
                    g = MajorCount(mat) \/ (q - 1) \in GroupSlots(mat, g)
        IN  IF mat.variant = "Column"
            THEN <<At(mat.indices, q - 1), g, At(mat.values, q - 1)>>
            ELSE <<g, At(mat.indices, q - 1), At(mat.values, q - 1)>>]

(* C11: a resize that shrinks a dimension removes exactly the stored entries *)
(* with row >= r or column >= c and keeps the others with their values; it    *)
(* never increases nonzeros and leaves the length and offsets invariants      *)
(* holding for the new size; zero rows or zero columns leave nonzeros = 0.    *)
C11_ResizeShrink ==
    (op.name = "resize" /\ (op.arg[1] < pre.rows \/ op.arg[2] < pre.columns)) =>
        /\ ~panicked
        /\ m.rows = op.arg[1] /\ m.columns = op.arg[2]
        /\ m.variant = pre.variant
        /\ Listing(m) = SelectSeq(Listing(pre),
                                  LAMBDA t : t[1] < op.arg[1] /\ t[2] < op.arg[2])
        /\ m.nonzeros <= pre.nonzeros
        /\ WellFormed(m)
        /\ (op.arg[1] = 0 \/ op.arg[2] = 0) => m.nonzeros = 0

(* a Row matrix has lost its last row and gained a column, dropping some     *)
(* entries and keeping others                                                *)
C11_Witness ==
    /\ op.name = "resize"
    /\ m.variant = "Row"
    /\ pre.rows = 3 /\ pre.columns = 1
    /\ m.rows = 2 /\ m.columns = 2
    /\ m.nonzeros = 1 /\ pre.nonzeros = 2

(* C12: a resize that shrinks no dimension leaves values, indices and       *)
(* nonzeros unchanged, so get is unchanged at every old coordinate and reads *)
(* zero at every new one; offsets gains one copy of nonzeros per added major *)
(* group and is unchanged when only the minor dimension grows.               *)
C12_ResizeGrow ==
    (op.name = "resize" /\ op.arg[1] >= pre.rows /\ op.arg[2] >= pre.columns) =>
        LET added == MajorCount(m) - MajorCount(pre)
        IN  /\ ~panicked
            /\ m.rows = op.arg[1] /\ m.columns = op.arg[2]
            /\ m.values = pre.values
            /\ m.indices = pre.indices
            /\ m.nonzeros = pre.nonzeros
            /\ m.offsets = pre.offsets \o [q \in 1..added |-> pre.nonzeros]
            /\ \A c \in Coordinates(m) :
                  Get(m, c[1], c[2]) =
                      IF c \in Coordinates(pre) THEN Get(pre, c[1], c[2]) ELSE Zero

(* a Row matrix with stored entries has grown by two rows and one column *)
C12_Witness ==
    /\ op.name = "resize"
    /\ m.variant = "Row"
    /\ pre.rows = 1 /\ pre.columns = 1 /\ pre.nonzeros = 1
    /\ m.rows = 3 /\ m.columns = 2
    /\ pre.values # <<Zero>>

(* C13: converting a rows x columns diagonal matrix with k = min(rows,      *)
(* columns) values gives a Column matrix with nonzeros = k (zeros stored     *)
(* too), the diagonal's values, indices [0, ..., k-1] and offsets[i] =       *)
(* min(i, k) for i in 0..columns; it satisfies the structural invariants and *)
(* its dense form has d[i] at (i, i) and zero elsewhere.                     *)
C13_DiagonalToCompressed ==
    op.name = "from_diagonal" =>
        LET d == op.arg
            k == Min(d.rows, d.columns)
            dense == IntoConventional(m)
        IN  /\ DiagonalValid(d)
            /\ m.variant = "Column"
            /\ m.rows = d.rows /\ m.columns = d.columns
            /\ m.nonzeros = k
            /\ m.values = d.values
            /\ m.indices = [q \in 1..k |-> q - 1]
            /\ m.offsets = [q \in 1..(d.columns + 1) |-> Min(q - 1, k)]
            /\ WellFormed(m)
            /\ \A g \in 0..(MajorCount(m) - 1) :
                  \A a \in GroupSlots(m, g), b \in GroupSlots(m, g) :
                      a < b => At(m.indices, a) < At(m.indices, b)
            /\ \A c \in Coordinates(m) :
                  ConventionalIndex(dense, c[1], c[2]) =
                      IF c[1] = c[2] THEN At(d.values, c[1]) ELSE Zero

(* a wide diagonal matrix whose only diagonal value is zero *)
C13_Witness ==
    /\ op.name = "from_diagonal"
    /\ op.arg.rows = 1 /\ op.arg.columns = 2
    /\ op.arg.values = <<Zero>>
    /\ m.offsets = <<0, 1, 1>>

(* f[0] + ... + f[n - 1] *)
RECURSIVE Sum(_, _)
Sum(f, n) == IF n = 0 THEN 0 ELSE f[n - 1] + Sum(f, n - 1)

(* seed + A * B for the logical content of the compressed matrix a (rows x   *)
(* p) and the column-major dense operand right (p x n)                       *)
ExpectedLeft(a, right, n, seed) ==
    [q \in 1..(a.rows * n) |->
        LET i == (q - 1) % a.rows
            l == (q - 1) \div a.rows
        IN  seed[q] + Sum([j \in 0..(a.columns - 1) |->
                              StoredValue(a, i, j) * At(right, l * a.columns + j)],
                          a.columns)]

(* seed + A * B for the dense matrix left (rows x p) and the logical content *)
(* of the compressed matrix b (p x n)                                        *)
ExpectedRight(left, b, seed) ==
    [q \in 1..(left.rows * b.columns) |->
        LET i == (q - 1) % left.rows
            j == (q - 1) \div left.rows
        IN  seed[q] + Sum([l \in 0..(b.rows - 1) |->
                              ConventionalIndex(left, i, l) * StoredValue(b, l, j)],
                          b.rows)]

(* C14: for a Column matrix A (m x p), a dense p x n operand B and any       *)
(* accumulator C0, A.multiply_into(B, C) completes with C = C0 + A * B and   *)
(* leaves A unchanged.                                                       *)
C14_LeftAddInto ==
    (op.name = "multiply_into_left" /\ pre.variant = "Column") =>
        /\ ~panicked
        /\ op.arg.result = ExpectedLeft(pre, op.arg.right, op.arg.n, op.arg.seed)
        /\ m = pre

(* the same for the matrices that have at least one column *)
C14_LeftAddIntoWithColumns ==
    (op.name = "multiply_into_left" /\ pre.variant = "Column" /\ pre.columns > 0) =>
        /\ ~panicked
        /\ op.arg.result = ExpectedLeft(pre, op.arg.right, op.arg.n, op.arg.seed)
        /\ m = pre

(* C15: for a dense matrix A (m x p), a Column matrix B (p x n) and any      *)
(* accumulator C0, A.multiply_into(B, C) completes with C = C0 + A * B.      *)
C15_RightAddInto ==
    (op.name = "multiply_into_right" /\ pre.variant = "Column") =>
        /\ ~panicked
        /\ op.arg.result = ExpectedRight(op.arg.left, pre, op.arg.seed)
        /\ m = pre

(* a 2 x 3 dense matrix times a 3 x 2 Column matrix into a seeded            *)
(* accumulator that the product changes                                      *)
C15_Witness ==
    /\ op.name = "multiply_into_right"
    /\ pre.variant = "Column"
    /\ pre.rows = 3 /\ pre.columns = 2 /\ pre.nonzeros >= 3
    /\ op.arg.left.rows = 2
    /\ op.arg.seed = <<1, 0, 1, 0>>
    /\ op.arg.result = <<2, 0, 1, 2>>

(* the indices of every major group of a matrix are strictly increasing *)
Sorted(mat) ==
    \A g \in 0..(MajorCount(mat) - 1) :
        \A k \in GroupSlots(mat, g), l \in GroupSlots(mat, g) :
            k < l => At(mat.indices, k) < At(mat.indices, l)

(* C16: multiply_self by a p x n diagonal matrix leaves an m x n matrix     *)
(* holding exactly the stored entries whose column is < n, in their old      *)
(* order and at their old coordinates, each value in column j multiplied by  *)
(* the j-th diagonal value; the structural invariants hold for the new size. *)
C16_DiagonalScale ==
    op.name = "multiply_self" =>
        LET kept == SelectSeq(Listing(pre), LAMBDA t : t[2] < op.arg.columns)
        IN  /\ ~panicked
            /\ m.rows = pre.rows /\ m.columns = op.arg.columns
            /\ m.variant = pre.variant
            /\ Listing(m) = [q \in 1..Len(kept) |->
                                <<kept[q][1], kept[q][2],
                                  kept[q][3] * At(op.arg.values, kept[q][2])>>]
            /\ WellFormed(m)
            /\ Sorted(m)

(* a 2-column matrix was scaled by a 2 x 1 diagonal matrix: the entries of  *)
(* column 1 are gone and a surviving value was multiplied by zero            *)
C16_Witness ==
    /\ op.name = "multiply_self"
    /\ pre.columns = 2 /\ m.columns = 1
    /\ op.arg.values = <<0>>
    /\ m.nonzeros >= 1 /\ m.nonzeros < pre.nonzeros
    /\ \A q \in 1..Len(pre.values) : pre.values[q] = 1
    /\ \A q \in 1..Len(m.values) : m.values[q] = 0

(* C17: the transpose of a rows x columns matrix is a columns x rows matrix *)
(* with the same variant tag and the same nonzeros; it satisfies the length, *)
(* offsets and sortedness invariants, and it reads at (j, i) what the source *)
(* reads at (i, j), with the same coordinates stored.                        *)
C17_Transpose ==
    op.name = "transpose" =>
        /\ ~panicked
        /\ m.rows = pre.columns /\ m.columns = pre.rows
        /\ m.variant = pre.variant
        /\ m.nonzeros = pre.nonzeros
        /\ WellFormed(m)
        /\ Sorted(m)
        /\ \A c \in Coordinates(pre) :
              /\ Get(m, c[2], c[1]) = Get(pre, c[1], c[2])
              /\ IsStored(m, c[2], c[1]) <=> IsStored(pre, c[1], c[2])

(* a 2 x 2 matrix with three stored entries was transposed, which changed   *)
(* the stored index sequence                                                 *)
C17_Witness ==
    /\ op.name = "transpose"
    /\ pre.rows = 2 /\ pre.columns = 2
    /\ pre.nonzeros = 3
    /\ m.indices # pre.indices
    /\ \E c \in Coordinates(pre) : Get(pre, c[1], c[2]) # Get(pre, c[2], c[1])

(* C18: iter() yields exactly nonzeros triples and then ends; the k-th      *)
(* triple carries values[k] and indices[k] with the unique major group g     *)
(* such that offsets[g] <= k < offsets[g+1], as (indices[k], g) for Column   *)
(* and (g, indices[k]) for Row; a fresh iter() yields the same sequence.     *)
C18_Iteration ==
    op.name = "iter" =>
        /\ ~panicked
        /\ m = pre
        /\ Len(op.arg.items) = m.nonzeros
        /\ op.arg.after
        /\ op.arg.again = op.arg.items
        /\ \A k \in 0..(m.nonzeros - 1) :
              \E g \in 0..(MajorCount(m) - 1) :
                 /\ At(m.offsets, g) <= k /\ k < At(m.offsets, g + 1)
                 /\ \A h \in 0..(MajorCount(m) - 1) :
                       (At(m.offsets, h) <= k /\ k < At(m.offsets, h + 1)) => h = g
                 /\ op.arg.items[k + 1] =
                        IF m.variant = "Column"
                        THEN <<At(m.indices, k), g, At(m.values, k)>>
                        ELSE <<g, At(m.indices, k), At(m.values, k)>>

(* a pass over a Row matrix whose middle row is empty: the group pointer    *)
(* moves from row 0 past row 1 to row 2                                      *)
C18_Witness ==
    /\ op.name = "iter"
    /\ m.variant = "Row"
    /\ m.offsets = <<0, 1, 1, 3>>
    /\ Len(op.arg.items) = 3
    /\ op.arg.items[1][1] = 0 /\ op.arg.items[2][1] = 2

(* C19: every constructor of an empty matrix (new, with_capacity, zero)     *)
(* returns rows and columns as given, nonzeros = 0, empty values and         *)
(* indices, and an all-zero offsets vector of length major_count + 1, so     *)
(* that a following in-bounds get or set does not panic.                     *)
C19_EmptyConstruction ==
    /\ op.name \in {"new", "with_capacity", "zero"} =>
          /\ m.rows = op.arg[1] /\ m.columns = op.arg[2]
          /\ op.name # "zero" => m.variant = op.arg[3]
          /\ m.nonzeros = 0
          /\ m.values = <<>> /\ m.indices = <<>>
          /\ m.offsets = Repeat(0, MajorCount(m) + 1)
    /\ op.name \in {"get", "set"} => ~panicked

(* C20: Matrix::nonzeros() returns the number of stored values that are not *)
(* zero; it is at most the nonzeros field and differs from it by the number  *)
(* of explicitly stored zeros, so the two agree iff no stored value is zero. *)
C20_CountedNonzeros ==
    op.name = "nonzeros" =>
        LET zeros == {q \in 1..Len(m.values) : m.values[q] = Zero}
            others == {q \in 1..Len(m.values) : m.values[q] # Zero}
        IN  /\ ~panicked
            /\ m = pre
            /\ op.arg = Cardinality(others)
            /\ op.arg <= m.nonzeros
            /\ m.nonzeros - op.arg = Cardinality(zeros)
            /\ (op.arg = m.nonzeros) <=> (zeros = {})

(* the count was taken on a matrix storing both a zero and a non-zero value *)
C20_Witness ==
    /\ op.name = "nonzeros"
    /\ m.nonzeros = 3
    /\ op.arg = 2
    /\ \E q \in 1..Len(m.values) : m.values[q] = Zero

(* C21: a Row matrix and a Column matrix of one size driven by the same      *)
(* in-bounds set, retain and resize calls hold the same logical content at   *)
(* every step: get agrees at every coordinate, iter() yields the same set of *)
(* triples, nonzeros is equal and the dense conversions are equal.           *)
C21_StoreDuality ==
    op.name # "start" =>
        /\ ~panicked
        /\ m.variant = "Row" /\ twin.variant = "Column"
        /\ m.rows = twin.rows /\ m.columns = twin.columns
        /\ \A c \in Coordinates(m) : Get(m, c[1], c[2]) = Get(twin, c[1], c[2])
        /\ Range(IterItems(m).items) = Range(IterItems(twin).items)
        /\ m.nonzeros = twin.nonzeros
        /\ IntoConventional(m) = IntoConventional(twin)

(* after a resize the two matrices hold three entries in different storage  *)
(* orders                                                                    *)
C21_Witness ==
    /\ op.name = "resize"
    /\ m.variant = "Row" /\ twin.variant = "Column"
    /\ m.nonzeros = 3 /\ twin.nonzeros = 3
    /\ m.nonzeros < pre.nonzeros
    /\ IterItems(m).items # IterItems(twin).items

(* C22: the multiply kernels give C0 + A * B for the logical content of the *)
(* compressed operand when its variant is Row, as they do for the Column     *)
(* matrix with the same logical content.                                     *)
C22_KernelDuality ==
    /\ (op.name = "multiply_into_left" /\ pre.variant = "Row" /\ pre.columns > 0) =>
          /\ ~panicked
          /\ op.arg.result = ExpectedLeft(pre, op.arg.right, op.arg.n, op.arg.seed)
    /\ (op.name = "multiply_into_right" /\ pre.variant = "Row") =>
          /\ ~panicked
          /\ op.arg.result = ExpectedRight(op.arg.left, pre, op.arg.seed)

(* C23: within one resize call the pruning pass runs to completion while    *)
(* offsets has its old length and rows and columns hold the old size; only   *)
(* then is the length of offsets adjusted, and rows and columns are written  *)
(* last; when offsets is truncated, every offset at or beyond the new last   *)
(* position already equals nonzeros.                                         *)
C23_ResizeOrdering ==
    /\ [](AtStep("retain") =>
             /\ Len(m.offsets) = Len(pre.offsets)
             /\ m.rows = pre.rows /\ m.columns = pre.columns)
    /\ [](AtStep("offsets") =>
             LET into == IF m.variant = "Column" THEN op.arg.columns ELSE op.arg.rows
             IN  /\ m.rows = pre.rows /\ m.columns = pre.columns
                 /\ Len(m.offsets) = Len(pre.offsets)
                 /\ m = Retain(pre, IF ResizeEntry(pre, op.arg.rows, op.arg.columns) = "retain"
                                    THEN Within(op.arg.rows, op.arg.columns)
                                    ELSE Keeping(Range(IterItems(pre).items)))
                 /\ \A g \in into..(Len(m.offsets) - 1) : At(m.offsets, g) = m.nonzeros)
    /\ [][op.name = "resizing" =>
             /\ Len(m'.offsets) # Len(m.offsets) => op.arg.pc = "offsets"
             /\ m'.columns # m.columns => op.arg.pc = "columns"
             /\ m'.rows # m.rows => op.arg.pc = "rows"
             /\ op.arg.pc \in {"columns", "rows"} =>
                   /\ m'.offsets = m.offsets /\ m'.values = m.values
                   /\ m'.indices = m.indices /\ m'.nonzeros = m.nonzeros]_vars

(* a resize that pruned two entries has reached the truncation of offsets *)
C23_Witness ==
    /\ AtStep("offsets")
    /\ m.nonzeros = pre.nonzeros - 2
    /\ m.nonzeros >= 1
    /\ (IF m.variant = "Column" THEN op.arg.columns ELSE op.arg.rows) + 1 < Len(m.offsets)

(* C24: retain calls the predicate exactly once for each entry stored at    *)
(* call time, in storage order, with the entry's true (row, column) and      *)
(* value; the entries it accepted are all kept with unchanged value, index   *)
(* and relative order, and the entries it rejected are all removed.          *)
C24_RetainExact ==
    op.name = "retain" =>
        LET run == RetainRun(pre, Keeping(op.arg))
        IN  /\ ~panicked
            /\ run.calls = Listing(pre)
            /\ Listing(m) = SelectSeq(Listing(pre), LAMBDA t : t \in op.arg)
            /\ m.nonzeros = Cardinality({q \in 1..Len(run.calls) : run.calls[q] \in op.arg})
            /\ m.rows = pre.rows /\ m.columns = pre.columns /\ m.variant = pre.variant

(* the first two entries of a three-entry column were rejected one after    *)
(* the other and the third was accepted                                      *)
C24_Witness ==
    /\ op.name = "retain"
    /\ pre.variant = "Column"
    /\ GroupSlots(pre, 0) = {0, 1, 2}
    /\ Listing(pre)[1] \notin op.arg
    /\ Listing(pre)[2] \notin op.arg
    /\ Listing(pre)[3] \in op.arg
    /\ m.nonzeros >= 1

(* C25: for an m x p dense matrix and a p x n diagonal matrix, multiply_self *)
(* completes without an out-of-range access for n < p, n = p and n > p, and  *)
(* leaves an m x n matrix whose column j is the old column j times the j-th  *)
(* diagonal value for j < min(p, n) and zero otherwise.                      *)
C25_DenseDiagonalScale ==
    op.name = "dense_multiply_self" =>
        /\ ~panicked
        /\ m.rows = pre.rows /\ m.columns = op.arg.columns
        /\ Len(m.values) = m.rows * m.columns
        /\ \A i \in 0..(m.rows - 1), j \in 0..(m.columns - 1) :
              ConventionalIndex(m, i, j) =
                  IF j < Min(pre.columns, op.arg.columns)
                  THEN ConventionalIndex(pre, i, j) * At(op.arg.values, j)
                  ELSE Zero

(* the same for a diagonal matrix with at least as many columns as rows *)
C25_DenseDiagonalScaleWide ==
    (op.name = "dense_multiply_self" /\ op.arg.columns >= pre.columns) =>
        /\ ~panicked
        /\ m.rows = pre.rows /\ m.columns = op.arg.columns
        /\ Len(m.values) = m.rows * m.columns
        /\ \A i \in 0..(m.rows - 1), j \in 0..(m.columns - 1) :
              ConventionalIndex(m, i, j) =
                  IF j < pre.columns
                  THEN ConventionalIndex(pre, i, j) * At(op.arg.values, j)
                  ELSE Zero

(* C26: set((i, j), v) leaves rows, columns and variant unchanged and leaves *)
(* get unchanged at every other in-bounds coordinate; on insertion only the  *)
(* offsets strictly after the affected major group change, each by +1, and   *)
(* the previously stored (index, value) entries keep their order and pairing. *)
C26_SetFrame ==
    op.name = "set" =>
        LET major == IF pre.variant = "Row" THEN op.arg[1] ELSE op.arg[2]
            minor == IF pre.variant = "Row" THEN op.arg[2] ELSE op.arg[1]
            other(t) == <<t[1], t[2]>> # <<op.arg[1], op.arg[2]>>
        IN  /\ ~panicked
            /\ m.rows = pre.rows /\ m.columns = pre.columns /\ m.variant = pre.variant
            /\ \A c \in Coordinates(pre) :
                  c # <<op.arg[1], op.arg[2]>> =>
                      /\ Get(m, c[1], c[2]) = Get(pre, c[1], c[2])
                      /\ IsStored(m, c[1], c[2]) <=> IsStored(pre, c[1], c[2])
            /\ SelectSeq(Listing(m), other) = SelectSeq(Listing(pre), other)
            /\ ~IsStored(pre, op.arg[1], op.arg[2]) =>
                  /\ Len(m.offsets) = Len(pre.offsets)
                  /\ \A g \in 0..(Len(pre.offsets) - 1) :
                        At(m.offsets, g) = At(pre.offsets, g) + (IF g > major THEN 1 ELSE 0)
                  /\ \E k \in 0..pre.nonzeros :
                        /\ m.indices = InsertAt(pre.indices, k, minor)
                        /\ m.values = InsertAt(pre.values, k, op.arg[3])

(* an entry was inserted into the middle row of a Row matrix whose three    *)
(* rows all hold entries                                                     *)
C26_Witness ==
    /\ op.name = "set"
    /\ pre.variant = "Row" /\ pre.rows = 3
    /\ op.arg[1] = 1
    /\ ~IsStored(pre, op.arg[1], op.arg[2])
    /\ \A g \in 0..2 : GroupSlots(pre, g) # {}

(* C27: on every valid matrix and for every predicate, retain finishes      *)
(* after as many loop iterations as there were stored entries at call time,  *)
(* and its group-advance loop never reads offsets past its last element,     *)
(* also when trailing groups are empty or become empty during the pass.      *)
C27_RetainTerminates ==
    op.name = "retain" =>
        LET run == RetainRun(pre, Keeping(op.arg))
        IN  /\ ~panicked
            /\ ~run.oob
            /\ Len(run.calls) = pre.nonzeros
            /\ run.k = Len(run.mat.indices)
            /\ run.major < MajorCount(pre) \/ pre.nonzeros = 0
            /\ run.mat = m

(* a pass emptied the last two groups of a Row matrix, the last of which    *)
(* was empty from the start                                                  *)
C27_Witness ==
    /\ op.name = "retain"
    /\ pre.variant = "Row" /\ pre.rows = 3
    /\ GroupSlots(pre, 0) # {} /\ GroupSlots(pre, 1) # {} /\ GroupSlots(pre, 2) = {}
    /\ GroupSlots(m, 0) # {} /\ GroupSlots(m, 1) = {}

(* C28: in every reachable state every stored index is smaller than the     *)
(* minor dimension (rows for Column, columns for Row), so the conversion to  *)
(* dense writes every entry inside the rows x columns buffer, at the cell of *)
(* its own row and column.                                                   *)
C28_IndicesInBounds ==
    /\ \A k \in 0..(Len(m.indices) - 1) : At(m.indices, k) < MinorCount(m)
    /\ \A q \in 1..Len(Listing(m)) :
          LET t == Listing(m)[q]
          IN  /\ InBounds(m, t[1], t[2])
              /\ InRange(ConventionalNew(m.rows, m.columns).values, t[2] * m.rows + t[1])
              /\ ConventionalIndex(IntoConventional(m), t[1], t[2]) = t[3]

(* a resize made the minor dimension smaller than an index that was stored, *)
(* and entries remain                                                        *)
C28_Witness ==
    /\ op.name = "resize"
    /\ MinorCount(m) < MinorCount(pre)
    /\ MajorCount(m) > MajorCount(pre)
    /\ \E k \in 0..(Len(pre.indices) - 1) : At(pre.indices, k) >= MinorCount(m)
    /\ m.nonzeros >= 2

(* C29: in multiply_self by a p x n diagonal matrix with min(p, n) values,  *)
(* every column index j that iter_mut yields after the resize to (m, n) is   *)
(* below min(p, n), so right[j] is read inside the diagonal's value array,   *)
(* for n < p, n = p and n > p and for both variants.                         *)
C29_DiagonalIndexSafety ==
    op.name = "multiply_self" =>
        LET resized == Resize(pre, pre.rows, op.arg.columns)
            yielded == IterItems(resized)
        IN  /\ ~panicked
            /\ ~yielded.oob
            /\ Len(op.arg.values) = Min(pre.columns, op.arg.columns)
            /\ \A q \in 1..Len(yielded.items) :
                  /\ yielded.items[q][2] < Min(pre.columns, op.arg.columns)
                  /\ InRange(op.arg.values, yielded.items[q][2])

(* a Row matrix with entries in both columns was scaled by a 2 x 1 diagonal *)
(* matrix and keeps two entries                                              *)
C29_Witness ==
    /\ op.name = "multiply_self"
    /\ pre.variant = "Row"
    /\ pre.columns = 2 /\ op.arg.columns = 1
    /\ \E q \in 1..Len(Listing(pre)) : Listing(pre)[q][2] = 1
    /\ m.nonzeros >= 2
    /\ op.arg.values = <<1>>

(* C30: transposing the transpose of a valid matrix of either variant gives *)
(* a matrix structurally equal to the original: same rows, columns, variant, *)
(* nonzeros, values, indices and offsets, explicitly stored zeros included.  *)
C30_TransposeInvolution ==
    op.name = "transpose" =>
        LET back == Transpose(m)
        IN  /\ ~panicked
            /\ back.rows = pre.rows /\ back.columns = pre.columns
            /\ back.variant = pre.variant
            /\ back.nonzeros = pre.nonzeros
            /\ back.values = pre.values
            /\ back.indices = pre.indices
            /\ back.offsets = pre.offsets

(* a non-square Row matrix storing a zero and a non-zero value was          *)
(* transposed                                                                *)
C30_Witness ==
    /\ op.name = "transpose"
    /\ pre.variant = "Row"
    /\ pre.rows = 1 /\ pre.columns = 2
    /\ pre.values = <<Zero, 1>>
    /\ m.offsets = <<0, 1, 2>>

=============================================================================
